---- MODULE Spec2Model ----
(***************************************************************************)
(* Model of moredoc/util/converter (src/util/converter/converter.go).      *)
(*                                                                         *)
(* A Go string is a sequence of atoms.  An atom is a one-character string, *)
(* except inside the workspace path, where a cache-root segment, a date    *)
(* field and a UUID are opaque atoms.  The empty string is <<>>.           *)
(* A Go error is a string; the nil error is Nil.                           *)
(*                                                                         *)
(* An operation that runs external processes or reads the file system      *)
(* is an operator that yields the SET of its possible executions, one per  *)
(* combination of answers the environment can give; each execution carries *)
(* the returned values and the ordered log of the external calls made.     *)
(* The action of the operation picks one execution and stores it in        *)
(* `last`.  The logger and the timeout do not influence any result and are *)
(* not part of the state.                                                  *)
(***************************************************************************)
EXTENDS Integers, Sequences, FiniteSets, TLC

VARIABLES cachePath,    \* Converter.cachePath
          workspace,    \* Converter.workspace
          uuidClock,    \* number of version-1 UUIDs generated so far
          lastCleaned,  \* history: the path removed by the latest Clean
          last          \* the latest operation: arguments, results, call log

vars == <<cachePath, workspace, uuidClock, lastCleaned, last>>

(***************************************************************************)
(* Bounds of the model.                                                    *)
(***************************************************************************)
MaxUuid == 2      \* UUIDs one instance may draw
MaxPage == 2      \* page numbers range over 1..MaxPage
MaxLines == 2     \* lines of a `mutool show` output
MaxChunks == 3    \* chunks a file content is concatenated from

Nil == "nil"
Empty == <<>>

(***************************************************************************)
(* String primitives of the Go standard library, on sequences of atoms.    *)
(***************************************************************************)
HasPrefix(s, p) == Len(s) >= Len(p) /\ SubSeq(s, 1, Len(p)) = p

HasSuffix(s, p) == Len(s) >= Len(p) /\ SubSeq(s, Len(s) - Len(p) + 1, Len(s)) = p

TrimSuffix(s, p) == IF HasSuffix(s, p) THEN SubSeq(s, 1, Len(s) - Len(p)) ELSE s

\* strings.Index: the first position >= 1 where sep occurs in s, 0 when none.
Index(s, sep) ==
  LET hits == {i \in 1..(Len(s) - Len(sep) + 1) : SubSeq(s, i, i + Len(sep) - 1) = sep}
  IN  IF hits = {} THEN 0 ELSE CHOOSE i \in hits : \A j \in hits : i <= j

RECURSIVE Split(_, _)
\* strings.Split with a non-empty separator: never an empty slice.
Split(s, sep) ==
  LET i == Index(s, sep)
  IN  IF i = 0 THEN <<s>>
      ELSE <<SubSeq(s, 1, i - 1)>> \o Split(SubSeq(s, i + Len(sep), Len(s)), sep)

RECURSIVE ReplaceAll(_, _, _)
\* bytes.ReplaceAll: non-overlapping occurrences, left to right.
ReplaceAll(s, old, new) ==
  LET i == Index(s, old)
  IN  IF i = 0 THEN s
      ELSE SubSeq(s, 1, i - 1) \o new \o ReplaceAll(SubSeq(s, i + Len(old), Len(s)), old, new)

UpperLetters == <<"A","B","C","D","E","F","G","H","I","J","K","L","M",
                  "N","O","P","Q","R","S","T","U","V","W","X","Y","Z">>

LowerLetters == <<"a","b","c","d","e","f","g","h","i","j","k","l","m",
                  "n","o","p","q","r","s","t","u","v","w","x","y","z">>

LowerAtom(c) ==
  IF \E i \in 1..Len(UpperLetters) : UpperLetters[i] = c
  THEN LowerLetters[CHOOSE i \in 1..Len(UpperLetters) : UpperLetters[i] = c]
  ELSE c

ToLower(s) == [i \in 1..Len(s) |-> LowerAtom(s[i])]

IsSpace(c) == c \in {" ", "\t", "\n", "\r"}

RECURSIVE TrimLeft(_, _)
\* strings.TrimLeft: drops leading atoms that belong to the cutset.
TrimLeft(s, cutset) ==
  IF s # <<>> /\ Head(s) \in cutset THEN TrimLeft(Tail(s), cutset) ELSE s

RECURSIVE TrimRightSpace(_)
TrimRightSpace(s) ==
  IF s # <<>> /\ IsSpace(s[Len(s)]) THEN TrimRightSpace(SubSeq(s, 1, Len(s) - 1)) ELSE s

TrimSpace(s) == TrimRightSpace(TrimLeft(s, {" ", "\t", "\n", "\r"}))

Digits == <<"0","1","2","3","4","5","6","7","8","9">>

IsDigit(c) == \E i \in 1..Len(Digits) : Digits[i] = c

DigitVal(c) == (CHOOSE i \in 1..Len(Digits) : Digits[i] = c) - 1

RECURSIVE Unsigned(_)
Unsigned(s) == IF s = <<>> THEN 0 ELSE 10 * Unsigned(SubSeq(s, 1, Len(s) - 1)) + DigitVal(s[Len(s)])

\* strconv.Atoi with its error dropped: 0 for anything that is not
\* an optional sign followed by one or more digits.
Atoi(s) ==
  LET body == IF s # <<>> /\ Head(s) \in {"+", "-"} THEN Tail(s) ELSE s
  IN  IF body = <<>> \/ \E i \in 1..Len(body) : ~IsDigit(body[i]) THEN 0
      ELSE IF s # <<>> /\ Head(s) = "-" THEN 0 - Unsigned(body)
      ELSE Unsigned(body)

\* fmt.Sprintf("%d", n) for the small non-negative numbers used as page indexes.
Itoa(n) == IF n < 10 THEN <<Digits[n + 1]>> ELSE <<Digits[(n \div 10) + 1], Digits[(n % 10) + 1]>>

(***************************************************************************)
(* path/filepath.                                                          *)
(***************************************************************************)
\* filepath.Ext: from the last "." of the final path element; "" when none.
Ext(path) ==
  LET dots == {i \in 1..Len(path) : path[i] = "." /\ \A j \in i..Len(path) : path[j] # "/"}
  IN  IF dots = {} THEN <<>>
      ELSE SubSeq(path, CHOOSE i \in dots : \A j \in dots : j <= i, Len(path))

RECURSIVE TrimRightSlash(_)
TrimRightSlash(s) ==
  IF s # <<>> /\ s[Len(s)] = "/" THEN TrimRightSlash(SubSeq(s, 1, Len(s) - 1)) ELSE s

\* filepath.Base: the last element; "." for "", "/" for a path of slashes.
Base(path) ==
  LET p == TrimRightSlash(path)
      slashes == {i \in 1..Len(p) : p[i] = "/"}
  IN  IF path = <<>> THEN <<".">>
      ELSE IF p = <<>> THEN <<"/">>
      ELSE IF slashes = {} THEN p
      ELSE SubSeq(p, (CHOOSE i \in slashes : \A j \in slashes : j <= i) + 1, Len(p))

\* filepath.ToSlash(filepath.Join(a, b, c)) for clean relative elements:
\* empty elements are skipped, the others are joined by "/".
Join3(a, b, c) ==
  LET ab == IF a = <<>> THEN b ELSE IF b = <<>> THEN a ELSE a \o <<"/">> \o b
  IN  IF ab = <<>> THEN c ELSE IF c = <<>> THEN ab ELSE ab \o <<"/">> \o c

(***************************************************************************)
(* Values the environment supplies.                                        *)
(***************************************************************************)
DefaultCachePath == <<"cache", "/", "convert">>

CachePaths == {DefaultCachePath, <<"tmp">>}

\* time.Now().Format(dirDteFmt)
Dates == {<<"2024", "/", "01", "/", "02">>}

\* uuid.Must(uuid.NewV1()).String(): the n-th UUID of the clock; no two are equal.
UuidString(n) == <<"uuid-" \o ToString(n)>>

ExecError == "exec error"
StatError == "stat error"
IOError == "io error"

DstPdf == <<"/","d","s","t",".","p","d","f">>

DstTxt == <<"/","d","s","t",".","t","x","t">>

DotPdf == <<".","p","d","f">>

\* Source paths handed to the conversions.
Srcs == {
  <<"a",".","e","p","u","b">>,
  <<"a",".","E","P","U","B">>,
  <<"a",".","m","o","b","i">>,
  <<"a",".","a","z","w">>,
  <<"a",".","A","z","w","3">>,
  <<"a",".","a","z","w","4">>,
  <<"a",".","c","h","m">>,
  <<"a",".","p","d","f">>,
  <<"d","/","b",".","P","D","F">>,
  <<"a",".","u","m","d">>,
  <<"a",".","t","x","t">>,
  <<"a",".","d","o","c","x">>,
  <<"a">>,
  <<"d",".","e","p","u","b","/","a">>,
  <<"a",".","t","a","r",".","c","h","m">>,
  <<"a",".">>,
  <<".","p","d","f">>,
  <<"a",".","e","p","u","b","x">> }

\* Page-file extension handed to convertPDFToPage (ConvertPDFToSVG).
PageExts == {<<".","s","v","g">>}

(***************************************************************************)
(* Records.                                                                *)
(***************************************************************************)
\* One external call and whether it succeeded.
Call(tool, arg, page, path, ok) == <<tool, arg, page, path, ok>>

CallTool(c) == c[1]

CallArg(c) == c[2]

CallPage(c) == c[3]

CallPath(c) == c[4]

CallOk(c) == c[5]

\* type Page: <<PageNum, PagePath>>
Page(num, path) == <<num, path>>

PageNum(p) == p[1]

PagePath(p) == p[2]

\* The latest operation and everything it returned.
Done(op, src, fromPage, toPage, via, dst, pages, n, err, calls) ==
  [op |-> op, src |-> src, fromPage |-> fromPage, toPage |-> toPage, via |-> via,
   ws |-> workspace, dst |-> dst, pages |-> pages, n |-> n, err |-> err, calls |-> calls,
   data |-> Empty, out |-> Empty, buf |-> Empty]

(***************************************************************************)
(* Workspace lifecycle.                                                    *)
(***************************************************************************)
\* Mutant of makeWorkspace: the cached path is ignored and a new one is
\* generated on every call.
makeWorkspaceRegenerates ==
  /\ uuidClock < MaxUuid
  /\ \E date \in Dates :
       workspace' = Join3(cachePath, date, UuidString(uuidClock))
  /\ uuidClock' = uuidClock + 1
  /\ last' = Done("makeWorkspace", Empty, 0, 0, "", workspace', <<>>, 0, Nil, <<>>)
  /\ UNCHANGED <<cachePath, lastCleaned>>

\* Converter.makeWorkspace: the cached path, or a freshly generated one.
makeWorkspace ==
  /\ \/ /\ workspace # Empty
        /\ UNCHANGED <<workspace, uuidClock>>
     \/ /\ workspace = Empty
        /\ uuidClock < MaxUuid
        /\ \E date \in Dates :
             workspace' = Join3(cachePath, date, UuidString(uuidClock))
        /\ uuidClock' = uuidClock + 1
  /\ last' = Done("makeWorkspace", Empty, 0, 0, "", workspace', <<>>, 0, Nil, <<>>)
  /\ UNCHANGED <<cachePath, lastCleaned>>

\* Converter.SetCachePath
SetCachePath ==
  \E p \in CachePaths :
    /\ cachePath' = p
    /\ last' = Done("SetCachePath", p, 0, 0, "", Empty, <<>>, 0, Nil,
                    <<Call("MkdirAll", "", 0, p, TRUE)>>)
    /\ UNCHANGED <<workspace, uuidClock, lastCleaned>>

\* Converter.Clean: the path is cleared whether or not RemoveAll succeeded.
Clean ==
  /\ \/ /\ workspace # Empty
        /\ \E ok \in BOOLEAN :
             last' = Done("Clean", Empty, 0, 0, "", Empty, <<>>, 0,
                          IF ok THEN Nil ELSE IOError,
                          <<Call("RemoveAll", "", 0, workspace, ok)>>)
        /\ workspace' = Empty
        /\ lastCleaned' = workspace
     \/ /\ workspace = Empty
        /\ last' = Done("Clean", Empty, 0, 0, "", Empty, <<>>, 0, Nil, <<>>)
        /\ UNCHANGED <<workspace, lastCleaned>>
  /\ UNCHANGED <<cachePath, uuidClock>>

\* NewConverter: the state right after construction.
Init ==
  /\ cachePath = DefaultCachePath
  /\ \E date \in Dates : workspace = Join3(DefaultCachePath, date, UuidString(0))
  /\ uuidClock = 1
  /\ lastCleaned = Empty
  /\ last = [op |-> "NewConverter", src |-> Empty, fromPage |-> 0, toPage |-> 0, via |-> "",
             ws |-> workspace, dst |-> workspace, pages |-> <<>>, n |-> 0, err |-> Nil,
             calls |-> <<Call("MkdirAll", "", 0, DefaultCachePath, TRUE),
                         Call("MkdirAll", "", 0, workspace, TRUE)>>,
             data |-> Empty, out |-> Empty, buf |-> Empty]

(***************************************************************************)
(* To-PDF conversions.  Each yields the set of its executions              *)
(* [via, dst, err, calls].                                                 *)
(***************************************************************************)
\* Converter.convertToPDFBySoffice
convertToPDFBySoffice(src) ==
  { [via |-> "convertToPDFBySoffice",
     dst |-> workspace \o <<"/">> \o TrimSuffix(Base(src), Ext(src)) \o DotPdf,
     err |-> IF ok THEN Nil ELSE ExecError,
     calls |-> <<Call("soffice", "--outdir", 0, workspace, ok)>>] : ok \in BOOLEAN }

\* Converter.convertToPDFByCalibre
convertToPDFByCalibre(src) ==
  { [via |-> "convertToPDFByCalibre",
     dst |-> workspace \o DstPdf,
     err |-> IF ok THEN Nil ELSE ExecError,
     calls |-> <<Call("MkdirAll", "", 0, workspace, TRUE),
                 Call("ebook-convert", "", 0, workspace \o DstPdf, ok)>>] : ok \in BOOLEAN }

\* Converter.PDFToPDF
PDFToPDF(src) ==
  { [via |-> "PDFToPDF",
     dst |-> workspace \o DstPdf,
     err |-> IF ok THEN Nil ELSE IOError,
     calls |-> <<Call("CopyFile", "", 0, workspace \o DstPdf, ok)>>] : ok \in BOOLEAN }

ConvertOfficeToPDF(src) == convertToPDFBySoffice(src)

ConvertEPUBToPDF(src) == convertToPDFByCalibre(src)

ConvertUMDToPDF(src) == convertToPDFBySoffice(src)

ConvertTXTToPDF(src) == convertToPDFBySoffice(src)

ConvertMOBIToPDF(src) == convertToPDFByCalibre(src)

ConvertAZWToPDF(src) == convertToPDFByCalibre(src)

ConvertCHMToPDF(src) == convertToPDFByCalibre(src)

\* Mutant of ConvertToPDFRuns: the extension is compared without strings.ToLower.
ConvertToPDFRunsCaseSensitive(src) ==
  LET ext == Ext(src)
  IN  CASE ext = <<".","e","p","u","b">> -> ConvertEPUBToPDF(src)
        [] ext = <<".","u","m","d">> -> ConvertUMDToPDF(src)
        [] ext = <<".","t","x","t">> -> ConvertTXTToPDF(src)
        [] ext = <<".","m","o","b","i">> -> ConvertMOBIToPDF(src)
        [] ext \in {<<".","a","z","w">>, <<".","a","z","w","3">>, <<".","a","z","w","4">>} -> ConvertAZWToPDF(src)
        [] ext = <<".","c","h","m">> -> ConvertCHMToPDF(src)
        [] ext = <<".","p","d","f">> -> PDFToPDF(src)
        [] OTHER -> ConvertOfficeToPDF(src)

\* Converter.ConvertToPDF: the switch on the lower-cased extension.
ConvertToPDFRuns(src) ==
  LET ext == ToLower(Ext(src))
  IN  CASE ext = <<".","e","p","u","b">> -> ConvertEPUBToPDF(src)
        [] ext = <<".","u","m","d">> -> ConvertUMDToPDF(src)
        [] ext = <<".","t","x","t">> -> ConvertTXTToPDF(src)
        [] ext = <<".","m","o","b","i">> -> ConvertMOBIToPDF(src)
        [] ext \in {<<".","a","z","w">>, <<".","a","z","w","3">>, <<".","a","z","w","4">>} -> ConvertAZWToPDF(src)
        [] ext = <<".","c","h","m">> -> ConvertCHMToPDF(src)
        [] ext = <<".","p","d","f">> -> PDFToPDF(src)
        [] OTHER -> ConvertOfficeToPDF(src)

ConvertToPDF ==
  \E src \in Srcs : \E r \in ConvertToPDFRuns(src) :
    /\ last' = Done("ConvertToPDF", src, 0, 0, r.via, r.dst, <<>>, 0, r.err, r.calls)
    /\ UNCHANGED <<cachePath, workspace, uuidClock, lastCleaned>>

\* Converter.ConvertPDFToTxt: the named result dst is set before the call,
\* so the bare return on failure hands it back as well.
ConvertPDFToTxtRuns(src) ==
  { [via |-> "ConvertPDFToTxt",
     dst |-> workspace \o DstTxt,
     err |-> IF ok THEN Nil ELSE ExecError,
     calls |-> <<Call("mutool", "convert", 0, workspace \o DstTxt, ok)>>] : ok \in BOOLEAN }

ConvertPDFToTxt ==
  \E r \in ConvertPDFToTxtRuns(DotPdf) :
    /\ last' = Done("ConvertPDFToTxt", DotPdf, 0, 0, r.via, r.dst, <<>>, 0, r.err, r.calls)
    /\ UNCHANGED <<cachePath, workspace, uuidClock, lastCleaned>>

(***************************************************************************)
(* PDF page range -> per-page files.  Executions are [pages, err, calls].  *)
(***************************************************************************)
\* fmt.Sprintf(c.workspace + "/%d" + ext, k)
PageFile(k, ext) == workspace \o <<"/">> \o Itoa(k) \o ext

RECURSIVE InkscapeLoopContinues(_, _, _, _, _, _)
\* Mutant of InkscapeLoop: after both argument forms failed for a page the
\* loop goes on with the next page instead of returning.
InkscapeLoopContinues(i, fromPage, toPage, ext, pages, calls) ==
  IF i > toPage - fromPage
  THEN {[pages |-> pages, err |-> Nil, calls |-> calls]}
  ELSE
    LET pagePath == PageFile(i + 1, ext)
        AfterExec(cs) ==
          UNION { LET c == Append(cs, Call("stat", "", fromPage + i, pagePath, found))
                  IN  IF ~found
                      THEN {[pages |-> pages, err |-> StatError, calls |-> c]}
                      ELSE InkscapeLoopContinues(i + 1, fromPage, toPage, ext,
                                                 Append(pages, Page(fromPage + i, pagePath)), c)
                  : found \in BOOLEAN }
    IN  UNION { LET c1 == Append(calls, Call("inkscape", "--pdf-page", fromPage + i, pagePath, ok1))
                IN  IF ok1 THEN AfterExec(c1)
                    ELSE UNION { LET c2 == Append(c1, Call("inkscape", "--pages", fromPage + i, pagePath, ok2))
                                 IN  IF ~ok2
                                     THEN InkscapeLoopContinues(i + 1, fromPage, toPage, ext, pages, c2)
                                     ELSE AfterExec(c2)
                                 : ok2 \in BOOLEAN }
                : ok1 \in BOOLEAN }

RECURSIVE InkscapeLoop(_, _, _, _, _, _)
\* The loop of convertPDFToPageByInkscape from index i on, with the pages
\* and the calls accumulated so far.
InkscapeLoop(i, fromPage, toPage, ext, pages, calls) ==
  IF i > toPage - fromPage
  THEN {[pages |-> pages, err |-> Nil, calls |-> calls]}
  ELSE
    LET pagePath == PageFile(i + 1, ext)
        AfterExec(cs) ==
          UNION { LET c == Append(cs, Call("stat", "", fromPage + i, pagePath, found))
                  IN  IF ~found
                      THEN {[pages |-> pages, err |-> StatError, calls |-> c]}
                      ELSE InkscapeLoop(i + 1, fromPage, toPage, ext,
                                        Append(pages, Page(fromPage + i, pagePath)), c)
                  : found \in BOOLEAN }
    IN  UNION { LET c1 == Append(calls, Call("inkscape", "--pdf-page", fromPage + i, pagePath, ok1))
                IN  IF ok1 THEN AfterExec(c1)
                    ELSE UNION { LET c2 == Append(c1, Call("inkscape", "--pages", fromPage + i, pagePath, ok2))
                                 IN  IF ~ok2
                                     THEN {[pages |-> pages, err |-> ExecError, calls |-> c2]}
                                     ELSE AfterExec(c2)
                                 : ok2 \in BOOLEAN }
                : ok1 \in BOOLEAN }

\* Converter.convertPDFToPageByInkscape
convertPDFToPageByInkscape(src, fromPage, toPage, ext) ==
  InkscapeLoop(0, fromPage, toPage, ext, <<>>, <<>>)

RECURSIVE StatLoop(_, _, _, _, _, _)
\* The os.Stat loop of convertPDFToPage after mutool succeeded: the Stat
\* error is assigned to the named result err before the break.
StatLoop(i, fromPage, toPage, ext, pages, calls) ==
  IF i > toPage - fromPage
  THEN {[pages |-> pages, err |-> Nil, calls |-> calls]}
  ELSE
    LET pagePath == PageFile(i + 1, ext)
    IN  UNION { LET c == Append(calls, Call("stat", "", fromPage + i, pagePath, found))
                IN  IF ~found
                    THEN {[pages |-> pages, err |-> StatError, calls |-> c]}
                    ELSE StatLoop(i + 1, fromPage, toPage, ext,
                                  Append(pages, Page(fromPage + i, pagePath)), c)
                : found \in BOOLEAN }

\* The body of convertPDFToPage up to its return statement.
MutoolRuns(src, fromPage, toPage, ext) ==
  UNION { LET c == <<Call("mutool", "convert", 0, workspace \o <<"/", "%d">> \o ext, ok)>>
          IN  IF ~ok THEN {[pages |-> <<>>, err |-> ExecError, calls |-> c]}
              ELSE StatLoop(0, fromPage, toPage, ext, <<>>, c)
          : ok \in BOOLEAN }

\* The deferred function of convertPDFToPage: whenever the named result err
\* is not nil at return, pages and err are replaced by the fallback's.
DeferredFallback(body, src, fromPage, toPage, ext) ==
  IF body.err # Nil
  THEN { [pages |-> r.pages, err |-> r.err, calls |-> body.calls \o r.calls] :
           r \in convertPDFToPageByInkscape(src, fromPage, toPage, ext) }
  ELSE {body}

\* Converter.convertPDFToPage
convertPDFToPage(src, fromPage, toPage, ext) ==
  UNION { DeferredFallback(body, src, fromPage, toPage, ext) :
            body \in MutoolRuns(src, fromPage, toPage, ext) }

\* ConvertPDFToPNG / ConvertPDFToJPG / ConvertPDFToSVG reach convertPDFToPage
\* with the caller's page range.
ConvertPDFToPage ==
  \E fromPage \in 1..MaxPage, toPage \in 1..MaxPage, ext \in PageExts :
    \E r \in convertPDFToPage(DotPdf, fromPage, toPage, ext) :
      /\ last' = Done("convertPDFToPage", DotPdf, fromPage, toPage, "convertPDFToPage",
                      workspace \o <<"/", "%d">> \o ext, r.pages, 0, r.err, r.calls)
      /\ UNCHANGED <<cachePath, workspace, uuidClock, lastCleaned>>

Next ==
  \/ makeWorkspace
  \/ SetCachePath
  \/ Clean
  \/ ConvertToPDF
  \/ ConvertPDFToTxt
  \/ ConvertPDFToPage

Spec == Init /\ [][Next]_vars

(***************************************************************************)
(* Page counting.                                                          *)
(***************************************************************************)
\* Lines `mutool show <file> pages` may print.
ShowLines == {
  <<"p","a","g","e"," ","1"," ","="," ","3"," ","0"," ","R">>,
  <<" "," ","P","A","G","E"," ","2"," ","="," ","4"," ","0"," ","R","\r">>,
  <<"P","a","g","e"," ","3","=","7"," ","0"," ","R">>,
  <<"p","a","g","e","s">>,
  <<"p","a","g","e"," ","0"," ","="," ","1"," ","0"," ","R">>,
  <<"p","a","g","e"," ","-","1"," ","="," ","x">>,
  <<"w","a","r","n","i","n","g",":"," ","x">> }

RECURSIVE JoinLines(_)
JoinLines(ls) ==
  IF ls = <<>> THEN <<>>
  ELSE IF Len(ls) = 1 THEN ls[1]
  ELSE ls[1] \o <<"\n">> \o JoinLines(Tail(ls))

\* Outputs of a successful `mutool show`: up to MaxLines lines.
ShowOutputs == { JoinLines(ls) : ls \in UNION { [1..k -> ShowLines] : k \in 0..MaxLines } }

PdfChunks == {
  <<"/","P","a","g","e","s">>,
  <<"e","n","d","o","b","j">>,
  <<" ","5"," ","0"," ","R">>,
  <<"/","K","i","d","s","[">> }

RECURSIVE Concat(_)
Concat(cs) == IF cs = <<>> THEN <<>> ELSE cs[1] \o Concat(Tail(cs))

\* Contents of the PDF file: up to MaxChunks chunks.
PdfContents == { Concat(cs) : cs \in UNION { [1..k -> PdfChunks] : k \in 0..MaxChunks } }

TokPages == <<"/","P","a","g","e","s">>

TokEndobj == <<"e","n","d","o","b","j">>

TokRef == <<"0"," ","R">>

TokPage == <<"p","a","g","e">>

\* getPdfPages: the error of pdf.Open is bound to a variable local to the
\* if statement, so only a recovered panic reaches the named result err.
getPdfPages(file) ==
  { [pages |-> n, err |-> Nil, calls |-> <<Call("pdf.Open", "ok", n, file, TRUE)>>] :
      n \in 0..MaxPage }
  \cup { [pages |-> 0, err |-> Nil, calls |-> <<Call("pdf.Open", "error", 0, file, FALSE)>>] }
  \cup { [pages |-> 0, err |-> "panic", calls |-> <<Call("pdf.Open", "panic", 0, file, FALSE)>>] }

\* The byte-pattern stage of countPDFPagesV2 on the content read.
BytePattern(content) ==
  LET arr == Split(content, TokPages)
      l == Len(arr)
  IN  IF l > 0
      THEN LET arr2 == Split(arr[l], TokEndobj)
           IN  IF Len(arr2) > 0
               THEN [pages |-> Len(Split(arr2[1], TokRef)) - 1, err |-> Nil]
               ELSE [pages |-> 0, err |-> "endobj split failed"]
      ELSE [pages |-> 0, err |-> "/Pages split failed"]

\* countPDFPagesV2: executions [pages, err, calls, data].
countPDFPagesV2(file) ==
  UNION { IF g.err = Nil
          THEN {[pages |-> g.pages, err |-> Nil, calls |-> g.calls, data |-> Empty]}
          ELSE { [pages |-> g.pages, err |-> IOError, data |-> Empty,
                  calls |-> Append(g.calls, Call("ReadFile", "", 0, file, FALSE))] }
               \cup
               { [pages |-> BytePattern(content).pages, err |-> BytePattern(content).err,
                  data |-> content,
                  calls |-> Append(g.calls, Call("ReadFile", "", 0, file, TRUE))] :
                   content \in PdfContents }
          : g \in getPdfPages(file) }

RECURSIVE ScanLines(_, _, _)
\* The scan of CountPDFPages over the lines, last line first; pages keeps
\* the value of the latest Atoi when no line gives a positive number.
ScanLines(lines, i, pages) ==
  IF i < 1 THEN pages
  ELSE LET line == TrimSpace(ToLower(lines[i]))
       IN  IF HasPrefix(line, TokPage)
           THEN LET p == Atoi(TrimSpace(TrimLeft(Split(line, <<"=">>)[1], {"p", "a", "g", "e"})))
                IN  IF p > 0 THEN p ELSE ScanLines(lines, i - 1, p)
           ELSE ScanLines(lines, i - 1, pages)

\* The body of CountPDFPages up to its return statement:
\* executions [pages, err, calls, out].
ShowRuns(file) ==
  { [pages |-> 0, err |-> ExecError, out |-> Empty,
     calls |-> <<Call("mutool", "show", 0, file, FALSE)>>] }
  \cup
  { [pages |-> ScanLines(Split(out, <<"\n">>), Len(Split(out, <<"\n">>)), 0), err |-> Nil,
     out |-> out, calls |-> <<Call("mutool", "show", 0, file, TRUE)>>] : out \in ShowOutputs }

\* Converter.CountPDFPages with its deferred function, which runs
\* countPDFPagesV2 only when the named result err is not nil.
CountPDFPagesRuns(file) ==
  UNION { IF body.err # Nil
          THEN { [pages |-> r.pages, err |-> r.err, out |-> body.out, data |-> r.data,
                  calls |-> body.calls \o r.calls] : r \in countPDFPagesV2(file) }
          ELSE { [pages |-> body.pages, err |-> Nil, out |-> body.out, data |-> Empty,
                  calls |-> body.calls] }
          : body \in ShowRuns(file) }

CountPDFPages ==
  \E r \in CountPDFPagesRuns(DotPdf) :
    /\ last' = [Done("CountPDFPages", DotPdf, 0, 0, "", Empty, <<>>, r.pages, r.err, r.calls)
                  EXCEPT !.data = r.data, !.out = r.out]
    /\ UNCHANGED <<cachePath, workspace, uuidClock, lastCleaned>>

NextCount == CountPDFPages

\* Page counting alone, on an instance fresh from NewConverter.
SpecCount == Init /\ [][NextCount]_vars

(***************************************************************************)
(* SVG gzip compression.                                                   *)
(***************************************************************************)
DataTextLt == <<"d","a","t","a","-","t","e","x","t","=","\"","<","\"">>

DataTextGt == <<"d","a","t","a","-","t","e","x","t","=","\"",">","\"">>

DataTextLtEsc == <<"d","a","t","a","-","t","e","x","t","=","\"","&","l","t",";","\"">>

DataTextGtEsc == <<"d","a","t","a","-","t","e","x","t","=","\"","&","g","t",";","\"">>

SvgChunks == {
  DataTextLt,
  DataTextGt,
  <<"d","a","t","a","-","t","e","x","t","=","\"">>,
  <<"<","\"">>,
  <<"&","l","t",";","\"">> }

\* Contents of the SVG file: up to MaxChunks chunks.
SvgContents == { Concat(cs) : cs \in UNION { [1..k -> SvgChunks] : k \in 0..MaxChunks } }

DotGzipSvg == <<".","g","z","i","p",".","s","v","g">>

SvgFiles == {<<"1",".","s","v","g">>, <<"d",".","x","/","2">>}

GzipHeader == "<gzip-header>"
SyncFlush == "<sync-flush>"
FinalBlock == "<final-block>"
GzipTrailer == "<crc32-isize>"

RECURSIVE Deflate(_)
\* The compressor, as run-length coding: each run of up to 9 equal atoms
\* becomes its length followed by the atom.
Deflate(s) ==
  IF s = <<>> THEN <<>>
  ELSE LET same == {k \in 1..Len(s) : k <= 9 /\ \A j \in 1..k : s[j] = s[1]}
           run == CHOOSE k \in same : \A j \in same : j <= k
       IN  <<Digits[run + 1], s[1]>> \o Deflate(SubSeq(s, run + 1, Len(s)))

\* gzip.NewWriterLevel(&buf, gzip.BestCompression)
NewWriterLevel == [buf |-> <<>>, pending |-> <<>>, wroteHeader |-> FALSE]

\* gzip.Writer.Write: the header goes out with the first write; the data
\* stays in the compressor until a flush or the close.
GzWrite(w, p) ==
  [buf |-> IF w.wroteHeader THEN w.buf ELSE w.buf \o <<GzipHeader>>,
   pending |-> w.pending \o p, wroteHeader |-> TRUE]

\* gzip.Writer.Flush: pending data and a sync marker, no trailer.
GzFlush(w) ==
  [buf |-> (IF w.wroteHeader THEN w.buf ELSE w.buf \o <<GzipHeader>>)
             \o Deflate(w.pending) \o <<SyncFlush>>,
   pending |-> <<>>, wroteHeader |-> TRUE]

\* gzip.Writer.Close: pending data, the final block and the trailer.
GzClose(w) ==
  [buf |-> (IF w.wroteHeader THEN w.buf ELSE w.buf \o <<GzipHeader>>)
             \o Deflate(w.pending) \o <<FinalBlock, GzipTrailer>>,
   pending |-> <<>>, wroteHeader |-> TRUE]

\* The two substitutions in one of the orders the map iteration may take.
Substitute(svgBytes, ltFirst) ==
  IF ltFirst
  THEN ReplaceAll(ReplaceAll(svgBytes, DataTextLt, DataTextLtEsc), DataTextGt, DataTextGtEsc)
  ELSE ReplaceAll(ReplaceAll(svgBytes, DataTextGt, DataTextGtEsc), DataTextLt, DataTextLtEsc)

\* The gzip part of CompressSVGByGZIP: `file` is the buffer handed to
\* os.WriteFile, after Write and Flush; `buf` is the buffer once the deferred
\* Close has run, which is after the file was written.
GzipRun(svgBytes) ==
  LET gzw == NewWriterLevel
      written == GzWrite(gzw, svgBytes)
      flushed == GzFlush(written)
      closed == GzClose(flushed)
  IN  [file |-> flushed.buf, buf |-> closed.buf]

\* Converter.CompressSVGByGZIP: executions [dst, err, data, out, buf, calls].
\* A failed os.WriteFile leaves nothing usable at dst.
CompressSVGByGZIPRuns(svgFile) ==
  LET dst == TrimSuffix(svgFile, Ext(svgFile)) \o DotGzipSvg
  IN  { [dst |-> dst, err |-> IOError, data |-> Empty, out |-> Empty, buf |-> Empty,
         calls |-> <<Call("ReadFile", "", 0, svgFile, FALSE)>>] }
      \cup
      { [dst |-> dst, err |-> IF x[3] THEN Nil ELSE IOError,
         data |-> x[1],
         out |-> IF x[3] THEN GzipRun(Substitute(x[1], x[2])).file ELSE Empty,
         buf |-> GzipRun(Substitute(x[1], x[2])).buf,
         calls |-> <<Call("ReadFile", "", 0, svgFile, TRUE),
                     Call("WriteFile", IF x[2] THEN "lt-first" ELSE "gt-first", 0, dst, x[3])>>] :
          x \in SvgContents \X BOOLEAN \X BOOLEAN }

CompressSVGByGZIP ==
  \E svgFile \in SvgFiles : \E r \in CompressSVGByGZIPRuns(svgFile) :
    /\ last' = [Done("CompressSVGByGZIP", svgFile, 0, 0, "", r.dst, <<>>, 0, r.err, r.calls)
                  EXCEPT !.data = r.data, !.out = r.out, !.buf = r.buf]
    /\ UNCHANGED <<cachePath, workspace, uuidClock, lastCleaned>>

NextGzip == CompressSVGByGZIP

\* SVG compression alone, on an instance fresh from NewConverter.
SpecGzip == Init /\ [][NextGzip]_vars

(***************************************************************************)
(* Properties.                                                             *)
(***************************************************************************)
ToolCalls(calls, tools) == {i \in 1..Len(calls) : CallTool(calls[i]) \in tools}

\* Number of leading page files the Stat calls right after the mutool call found.
FoundPrefix(calls, n) ==
  Cardinality({k \in 1..n : \A j \in 1..k :
                 Len(calls) >= j + 1 /\ CallTool(calls[j + 1]) = "stat" /\ CallOk(calls[j + 1])})

\* C1: when the mutool call of convertPDFToPage succeeds, the pages returned
\* are the longest prefix of fromPage..toPage whose page files exist, no
\* error is returned and inkscape is not invoked, also when a file is missing.
C1_PrimaryPrefixNoFallback ==
  (last.op = "convertPDFToPage" /\ CallOk(last.calls[1])) =>
    LET m == FoundPrefix(last.calls, last.toPage - last.fromPage + 1)
    IN  /\ last.pages = [k \in 1..m |-> Page(last.fromPage + k - 1, CallPath(last.calls[k + 1]))]
        /\ last.err = Nil
        /\ ToolCalls(last.calls, {"inkscape"}) = {}

\* C2: when the mutool call fails, the range is retried through inkscape
\* page by page in ascending order, "--pdf-page" first and "--pages" only
\* after "--pdf-page" failed for that page; when both fail no later page is
\* tried and the pages collected so far come back with a non-nil error.
C2_FallbackOrder ==
  (last.op = "convertPDFToPage" /\ ~CallOk(last.calls[1])) =>
    LET fb == [i \in 1..(Len(last.calls) - 1) |-> last.calls[i + 1]]
        ink == {i \in 1..Len(fb) : CallTool(fb[i]) = "inkscape"}
        PrevInk(i) == CHOOSE j \in ink : j < i /\ \A k \in ink : k < i => k <= j
    IN  /\ \A i \in 1..Len(fb) : CallTool(fb[i]) \in {"inkscape", "stat"}
        /\ last.fromPage <= last.toPage =>
             /\ fb # <<>>
             /\ CallTool(fb[1]) = "inkscape" /\ CallArg(fb[1]) = "--pdf-page" /\ CallPage(fb[1]) = last.fromPage
        /\ last.fromPage > last.toPage => fb = <<>>
        /\ \A i \in ink :
             /\ CallPage(fb[i]) \in last.fromPage..last.toPage
             /\ CallArg(fb[i]) = "--pages" =>
                  /\ i > 1
                  /\ CallTool(fb[i - 1]) = "inkscape" /\ CallArg(fb[i - 1]) = "--pdf-page"
                  /\ CallPage(fb[i - 1]) = CallPage(fb[i]) /\ ~CallOk(fb[i - 1])
             /\ (CallArg(fb[i]) = "--pdf-page" /\ ~CallOk(fb[i])) =>
                  /\ i < Len(fb)
                  /\ CallTool(fb[i + 1]) = "inkscape" /\ CallArg(fb[i + 1]) = "--pages"
             /\ (CallArg(fb[i]) = "--pdf-page" /\ i > 1) =>
                  /\ CallPage(fb[i]) = CallPage(fb[PrevInk(i)]) + 1
                  /\ CallOk(fb[PrevInk(i)])
             /\ (CallArg(fb[i]) = "--pages" /\ ~CallOk(fb[i])) =>
                  /\ i = Len(fb)
                  /\ last.err # Nil
                  /\ Len(last.pages) = CallPage(fb[i]) - last.fromPage
        /\ \A k \in 1..Len(last.pages) : PageNum(last.pages[k]) = last.fromPage + k - 1

\* C2 witness: the fallback delivered page 1 through "--pages" and gave up
\* on a later page after both forms failed.
C2_Witness ==
  /\ last.op = "convertPDFToPage"
  /\ ~CallOk(last.calls[1])
  /\ Len(last.pages) >= 1
  /\ last.err = ExecError
  /\ \E i \in 1..Len(last.calls) :
       CallArg(last.calls[i]) = "--pages" /\ CallOk(last.calls[i]) /\ CallPage(last.calls[i]) = last.fromPage
  /\ CallArg(last.calls[Len(last.calls)]) = "--pages"
  /\ ~CallOk(last.calls[Len(last.calls)])

\* C3: a nil error with a page count <= 0 is returned by CountPDFPages only
\* after the fallback chain ran, and a failed mutool call always runs it.
C3_FallbackOnEveryFailure ==
  last.op = "CountPDFPages" =>
    /\ ~CallOk(last.calls[1]) => ToolCalls(last.calls, {"pdf.Open"}) # {}
    /\ (last.err = Nil /\ last.n <= 0) => ToolCalls(last.calls, {"pdf.Open"}) # {}

\* Reference gzip reader: the stream is complete when it starts with the
\* header and ends with the final block and the trailer.
GzipComplete(bytes) ==
  /\ Len(bytes) >= 3
  /\ bytes[1] = GzipHeader
  /\ bytes[Len(bytes) - 1] = FinalBlock
  /\ bytes[Len(bytes)] = GzipTrailer

RECURSIVE Inflate(_)
\* Reference decompressor: expands the runs, skips the stream markers.
Inflate(bytes) ==
  IF bytes = <<>> THEN <<>>
  ELSE IF bytes[1] \in {GzipHeader, SyncFlush, FinalBlock, GzipTrailer}
  THEN Inflate(Tail(bytes))
  ELSE [j \in 1..(DigitVal(bytes[1])) |-> bytes[2]] \o Inflate(SubSeq(bytes, 3, Len(bytes)))

\* C4: the file written to <input without extension>.gzip.svg is a complete
\* gzip stream whose decompressed bytes are the input with the two
\* substitutions applied, whichever substitution is applied first.
C4_CompleteGzipOfSubstituted ==
  (last.op = "CompressSVGByGZIP" /\ last.err = Nil) =>
    /\ last.dst = TrimSuffix(last.src, Ext(last.src)) \o DotGzipSvg
    /\ Substitute(last.data, TRUE) = Substitute(last.data, FALSE)
    /\ Inflate(last.out) = Substitute(last.data, TRUE)
    /\ GzipComplete(last.out)

\* C5: a non-empty workspace path is changed by Clean only; Clean removes the
\* workspace and empties the path; makeWorkspace returns the cached path, or
\* after Clean a non-empty one that differs from the path cleaned.
C5_WorkspaceStableUntilClean ==
  [][ /\ (workspace # Empty /\ last'.op # "Clean") => workspace' = workspace
      /\ last'.op = "Clean" =>
           /\ workspace' = Empty
           /\ workspace # Empty =>
                \E i \in 1..Len(last'.calls) :
                  CallTool(last'.calls[i]) = "RemoveAll" /\ CallPath(last'.calls[i]) = workspace
      /\ last'.op = "makeWorkspace" =>
           /\ last'.dst = workspace'
           /\ workspace' # Empty
           /\ workspace # Empty => last'.dst = workspace
           /\ workspace = Empty => workspace' # lastCleaned
    ]_vars

\* C5 witness: an allocation after Clean produced a path other than the cleaned one.
C5_Witness ==
  /\ last.op = "makeWorkspace"
  /\ lastCleaned # Empty
  /\ workspace # Empty
  /\ workspace # lastCleaned
  /\ last.ws = Empty

CalibreExts == {<<".","e","p","u","b">>, <<".","m","o","b","i">>, <<".","a","z","w">>, <<".","a","z","w","3">>, <<".","a","z","w","4">>, <<".","c","h","m">>}

\* C6: ConvertToPDF sends epub, mobi, azw, azw3, azw4 and chm (in any letter
\* case) to convertToPDFByCalibre, pdf to PDFToPDF and everything else to
\* convertToPDFBySoffice; exactly one of the three runs, and the only error
\* is the one of the tool that ran.
C6_RouterDispatch ==
  last.op = "ConvertToPDF" =>
    LET e == ToLower(Ext(last.src))
        ran == ToolCalls(last.calls, {"soffice", "ebook-convert", "CopyFile"})
    IN  /\ e \in CalibreExts => last.via = "convertToPDFByCalibre"
        /\ e = DotPdf => last.via = "PDFToPDF"
        /\ e \notin CalibreExts \cup {DotPdf} => last.via = "convertToPDFBySoffice"
        /\ Cardinality(ran) = 1
        /\ \A i \in ran :
             /\ CallTool(last.calls[i]) =
                  CASE last.via = "convertToPDFByCalibre" -> "ebook-convert"
                    [] last.via = "PDFToPDF" -> "CopyFile"
                    [] OTHER -> "soffice"
             /\ (last.err = Nil) = CallOk(last.calls[i])

\* C6 witness: an upper-case EPUB went to the ebook converter.
C6_Witness ==
  /\ last.op = "ConvertToPDF"
  /\ last.src = <<"a",".","E","P","U","B">>
  /\ last.via = "convertToPDFByCalibre"
  /\ CallTool(last.calls[Len(last.calls)]) = "ebook-convert"

\* C7: a non-empty workspace path is <cacheRoot>/<YYYY>/<MM>/<DD>/<uuid>
\* with <cacheRoot> the cache root currently configured.
C7_WorkspaceUnderCurrentRoot ==
  workspace # Empty =>
    \E date \in Dates, k \in 0..MaxUuid : workspace = Join3(cachePath, date, UuidString(k))

\* C8: the byte-pattern stage returns a non-nil error on a content without
\* "/Pages", or without "endobj" after the last "/Pages".
C8_BytePatternRejectsMalformed ==
  LET read == {i \in 1..Len(last.calls) : CallTool(last.calls[i]) = "ReadFile" /\ CallOk(last.calls[i])}
      segs == Split(last.data, TokPages)
  IN  (last.op = "CountPDFPages" /\ read # {}
         /\ (Index(last.data, TokPages) = 0 \/ Index(segs[Len(segs)], TokEndobj) = 0))
        => last.err # Nil

\* C9: whenever the PDF reader library fails, by an error of pdf.Open or by
\* a panic, the raw-byte stage runs and its result is the one returned.
C9_LibraryFailureReachesBytes ==
  LET failed == {i \in 1..Len(last.calls) : CallTool(last.calls[i]) = "pdf.Open" /\ ~CallOk(last.calls[i])}
      reads == ToolCalls(last.calls, {"ReadFile"})
  IN  (last.op = "CountPDFPages" /\ failed # {}) =>
        /\ reads # {}
        /\ \A i \in reads : CallOk(last.calls[i]) =>
             (last.n = BytePattern(last.data).pages /\ last.err = BytePattern(last.data).err)

\* Paths the latest conversion asked a tool to write, or returned.
OutputPaths ==
  {CallPath(last.calls[i]) : i \in ToolCalls(last.calls, {"ebook-convert", "CopyFile", "mutool", "inkscape"})}
  \cup (IF last.op = "ConvertToPDF" THEN {last.dst} ELSE {})
  \cup {PagePath(last.pages[k]) : k \in 1..Len(last.pages)}

\* C10: every conversion builds its output paths with a non-empty workspace
\* path, so each lies inside the workspace and none directly under "/".
C10_OutputInsideWorkspace ==
  last.op \in {"ConvertToPDF", "ConvertPDFToTxt", "convertPDFToPage"} =>
    /\ last.ws # Empty
    /\ \A p \in OutputPaths : HasPrefix(p, last.ws \o <<"/">>) /\ Head(p) # "/"

====
